---- MODULE Spec2Model ----
(***************************************************************************)
(* Tyro (src/main.go): the token broker goroutine `tokener`, the interim   *)
(* goroutine it spawns per refresh, the timer goroutine it spawns per      *)
(* successful refresh, `main`'s first trigger, and the request handlers    *)
(* statusHandler and rawRewriter that read tokenChan and (statusHandler    *)
(* only) send on refreshTokenChan.                                         *)
(*                                                                         *)
(* tokenChan and refreshTokenChan are unbuffered (make(chan T), lines      *)
(* 95-96): a send and its receive are one rendezvous step, and a goroutine *)
(* whose pc is at a send or a receive is blocked there until a partner     *)
(* arrives.                                                                *)
(***************************************************************************)
EXTENDS Integers, FiniteSets, Sequences, TLC

\* Concurrent HTTP handler goroutines.
NumHandlers == 2
\* Token-endpoint calls the endpoint answers successfully; once they are
\* used up the endpoint only fails (or hangs), which ends the tokener.
MaxRefresh == 2
\* The fixed margin of line 419: time.Sleep((ExpiresIn-20) * time.Second).
SafetyMargin == 20

Handlers == 1..NumHandlers
\* Ids of token-endpoint calls: every success allows one more call, a
\* failure ends the loop, so there are at most MaxRefresh + 1 of them.
Calls == 1..(MaxRefresh + 1)
\* expires_in values the endpoint may report (below and above the margin).
ExpiresInValues == {5, 3600}

\* Go strings that flow through tokenChan. Access tokens are opaque; the
\* k-th successful response carries a token distinct from all earlier ones.
uninitialized == [str |-> "uninitialized", serial |-> 0]
empty == [str |-> "", serial |-> 0]
AccessToken(k) == [str |-> "access_token", serial |-> k]
\* No value: a variable that is not live.
unset == [str |-> "unset", serial |-> 0]

VARIABLES
    mainPc,        \* main: "trigger" (line 146, blocked sending), "serve" (line 149)
    token,         \* tokener's local `token` (line 335)
    tokenerPc,     \* "select" 338, "netcall" 382, "stopIntrim" 411, "waitClose" 412, "exited" (return at 388/394/406)
    calls,         \* number of refreshes started so far = id of the current one
    resp,          \* responseJSON of the current call (line 397)
    interimPc,     \* per call: "none", "spawned" (before 347), "serving" (select 350), "closing" (354), "done"
    oldToken,      \* per call: the interim goroutine's snapshot (line 347)
    timerPc,       \* per call: "none", "sleeping" (419), "sending" (420), "done"
    inflight,      \* token-endpoint POSTs issued and not yet answered
    successes,     \* 200 responses with a well-formed body so far
    hPc,           \* per handler: "idle", "get" (167), "rawget" (298), "upstream" (212), "trigger" (223)
    written,       \* what the last step wrote to an HTTP caller, if anything:
                   \* the request's bibID and the status code (code 0: nothing)
    \* history variables, read by the properties only
    tokenAtTrigger, \* value of `token` when the current refresh was triggered
    completed,      \* refreshes that have ended (token installed, or failure return)
    lastOutcome,    \* "none", "success", "failure": how the last ended refresh ended
    installed,      \* token of the last successful refresh (uninitialized before)
    lastGet,        \* value of the most recent get() since a refresh last ended (unset: none)
    maxSeen,        \* highest serial any get() has returned
    hTrigDuring     \* per handler: its pending trigger was issued while a POST was in flight

tokVars == <<token, tokenerPc, calls, resp>>
interimVars == <<interimPc, oldToken>>
timerVars == <<timerPc>>
netVars == <<inflight, successes>>
hVars == <<hPc>>
getHist == <<lastGet, maxSeen>>
refreshHist == <<tokenAtTrigger, completed, lastOutcome, installed>>
trigHist == <<hTrigDuring>>
vars == <<mainPc, tokVars, interimVars, timerVars, netVars, hVars, written, getHist, refreshHist, trigHist>>
brokerVars == <<mainPc, tokVars, interimVars, timerVars, netVars, refreshHist>>

noResp == [serial |-> 0, expiresIn |-> 0]
nothing == [bib |-> "", code |-> 0]

\* bibIDs a request path may carry: none, or a record identifier.
BibIds == {"", "b1"}

Init ==
    /\ mainPc = "trigger"
    /\ token = uninitialized
    /\ tokenerPc = "select"
    /\ calls = 0
    /\ resp = noResp
    /\ interimPc = [c \in Calls |-> "none"]
    /\ oldToken = [c \in Calls |-> unset]
    /\ timerPc = [c \in Calls |-> "none"]
    /\ inflight = 0
    /\ successes = 0
    /\ hPc = [h \in Handlers |-> "idle"]
    /\ written = nothing
    /\ tokenAtTrigger = uninitialized
    /\ completed = 0
    /\ lastOutcome = "none"
    /\ installed = uninitialized
    /\ lastGet = unset
    /\ maxSeen = 0
    /\ hTrigDuring = [h \in Handlers |-> FALSE]

Max(a, b) == IF a >= b THEN a ELSE b

Sentinel(t) == t = uninitialized \/ t = empty

(***************************************************************************)
(* tokener, lines 327-427                                                  *)
(***************************************************************************)

\* Faulty variant of StartRefresh: the POST is issued for every trigger, also
\* while an earlier one is unanswered (the call moved into its own goroutine).
StartRefreshAnytime ==
    /\ tokenerPc \in {"select", "netcall"}
    /\ calls' = calls + 1
    /\ interimPc' = [interimPc EXCEPT ![calls + 1] = "spawned"]
    /\ tokenerPc' = "netcall"
    /\ inflight' = inflight + 1
    /\ tokenAtTrigger' = token
    /\ written' = nothing
    /\ UNCHANGED <<token, resp, oldToken, successes, completed, lastOutcome, installed>>

\* Faulty variant of StartRefresh: the POST is handed to a goroutine of its
\* own and the loop goes straight back to its select, where it offers the
\* token next to the interim goroutine it has just spawned.
StartRefreshAsync ==
    /\ tokenerPc = "select"
    /\ calls < MaxRefresh + 1
    /\ calls' = calls + 1
    /\ interimPc' = [interimPc EXCEPT ![calls + 1] = "spawned"]
    /\ tokenerPc' = "select"
    /\ inflight' = inflight + 1
    /\ tokenAtTrigger' = token
    /\ written' = nothing
    /\ UNCHANGED <<token, resp, oldToken, successes, completed, lastOutcome, installed>>

\* Faulty variant of StartRefresh: the token is invalidated when the refresh
\* starts, before the interim goroutine has taken its snapshot.
StartRefreshInvalidate ==
    /\ tokenerPc = "select"
    /\ calls' = calls + 1
    /\ interimPc' = [interimPc EXCEPT ![calls + 1] = "spawned"]
    /\ tokenerPc' = "netcall"
    /\ inflight' = inflight + 1
    /\ tokenAtTrigger' = token
    /\ token' = empty
    /\ written' = nothing
    /\ UNCHANGED <<resp, oldToken, successes, completed, lastOutcome, installed>>

\* Lines 339-382: a trigger was received; spawn the interim goroutine and
\* issue the POST. client.Do is synchronous: the loop does not return to its
\* select until the call is answered.
StartRefresh ==
    /\ tokenerPc = "select"
    /\ calls' = calls + 1
    /\ interimPc' = [interimPc EXCEPT ![calls + 1] = "spawned"]
    /\ tokenerPc' = "netcall"
    /\ inflight' = inflight + 1
    /\ tokenAtTrigger' = token
    /\ written' = nothing
    /\ UNCHANGED <<token, resp, oldToken, successes, completed, lastOutcome, installed>>

\* Line 146: main's first trigger is received; main goes on to ListenAndServe.
RefreshFromMain ==
    /\ mainPc = "trigger"
    /\ StartRefresh
    /\ mainPc' = "serve"
    /\ UNCHANGED <<timerVars, hVars, getHist, trigHist>>

\* Line 420: a timer goroutine's trigger is received.
RefreshFromTimer(c) ==
    /\ timerPc[c] = "sending"
    /\ StartRefresh
    /\ timerPc' = [timerPc EXCEPT ![c] = "done"]
    /\ UNCHANGED <<mainPc, hVars, getHist, trigHist>>

\* Line 223: a status handler's trigger is received; the handler returns.
RefreshFromHandler(h) ==
    /\ hPc[h] = "trigger"
    /\ StartRefresh
    /\ hPc' = [hPc EXCEPT ![h] = "idle"]
    /\ hTrigDuring' = [hTrigDuring EXCEPT ![h] = FALSE]
    /\ UNCHANGED <<mainPc, timerVars, getHist>>

\* Faulty variant of NetFail: the failure branches end the interim goroutine
\* too (as the success path does), and nothing is left to send on tokenChan.
NetFailStopsInterim ==
    /\ tokenerPc = "netcall"
    /\ token' = empty
    /\ tokenerPc' = "exited"
    /\ interimPc' = [interimPc EXCEPT ![calls] = "none"]
    /\ oldToken' = [oldToken EXCEPT ![calls] = unset]
    /\ inflight' = inflight - 1
    /\ completed' = completed + 1
    /\ lastOutcome' = "failure"
    /\ lastGet' = unset
    /\ written' = nothing
    /\ UNCHANGED <<mainPc, calls, resp, timerVars, successes, hVars,
                   maxSeen, tokenAtTrigger, installed, trigHist>>

\* Lines 383-407: transport error, non-200 status or malformed body. Each of
\* the three branches sets token = "" and returns from tokener.
NetFail ==
    /\ tokenerPc = "netcall"
    /\ token' = empty
    /\ tokenerPc' = "exited"
    /\ inflight' = inflight - 1
    /\ completed' = completed + 1
    /\ lastOutcome' = "failure"
    /\ lastGet' = unset
    /\ written' = nothing
    /\ UNCHANGED <<mainPc, calls, resp, interimVars, timerVars, successes, hVars,
                   maxSeen, tokenAtTrigger, installed, trigHist>>

\* Faulty variant of NetSuccess: the new token is installed as soon as the
\* answer is decoded, without the stopIntrim handshake of lines 411-412, so
\* the interim goroutine keeps offering the old token.
NetSuccessNoHandshake(e) ==
    /\ tokenerPc = "netcall"
    /\ successes < MaxRefresh
    /\ successes' = successes + 1
    /\ inflight' = inflight - 1
    /\ token' = AccessToken(successes + 1)
    /\ timerPc' = [timerPc EXCEPT ![calls] =
                       IF e - SafetyMargin > 0 THEN "sleeping" ELSE "sending"]
    /\ tokenerPc' = "select"
    /\ completed' = completed + 1
    /\ lastOutcome' = "success"
    /\ installed' = AccessToken(successes + 1)
    /\ lastGet' = unset
    /\ written' = nothing
    /\ UNCHANGED <<mainPc, calls, resp, interimVars, hVars, maxSeen,
                   tokenAtTrigger, trigHist>>

\* Lines 382-409: a 200 answer with a well-formed body, decoded into responseJSON.
NetSuccess(e) ==
    /\ tokenerPc = "netcall"
    /\ successes < MaxRefresh
    /\ resp' = [serial |-> successes + 1, expiresIn |-> e]
    /\ successes' = successes + 1
    /\ inflight' = inflight - 1
    /\ tokenerPc' = "stopIntrim"
    /\ written' = nothing
    /\ UNCHANGED <<mainPc, token, calls, interimVars, timerVars, hVars,
                   getHist, refreshHist, trigHist>>

\* Lines 411 and 353: stopIntrim <- true meets the interim goroutine's receive.
StopInterim ==
    /\ tokenerPc = "stopIntrim"
    /\ interimPc[calls] = "serving"
    /\ tokenerPc' = "waitClose"
    /\ interimPc' = [interimPc EXCEPT ![calls] = "closing"]
    /\ written' = nothing
    /\ UNCHANGED <<mainPc, token, calls, resp, oldToken, timerVars, netVars, hVars,
                   getHist, refreshHist, trigHist>>

\* Line 419: the argument of time.Sleep, in seconds.
SleepSeconds(e) == e - SafetyMargin

\* Faulty variant of Install: the assignment of line 414 is missing.
InstallKeepsOld ==
    /\ tokenerPc = "waitClose"
    /\ interimPc[calls] = "done"
    /\ interimPc' = [interimPc EXCEPT ![calls] = "none"]
    /\ timerPc' = [timerPc EXCEPT ![calls] =
                       IF SleepSeconds(resp.expiresIn) > 0 THEN "sleeping" ELSE "sending"]
    /\ resp' = noResp
    /\ tokenerPc' = "select"
    /\ completed' = completed + 1
    /\ lastOutcome' = "success"
    /\ installed' = AccessToken(resp.serial)
    /\ lastGet' = unset
    /\ written' = nothing
    /\ UNCHANGED <<mainPc, token, calls, oldToken, netVars, hVars, maxSeen,
                   tokenAtTrigger, trigHist>>

\* Faulty variant of Install: the timer goroutine of lines 418-421 is missing.
InstallNoTimer ==
    /\ tokenerPc = "waitClose"
    /\ interimPc[calls] = "done"
    /\ interimPc' = [interimPc EXCEPT ![calls] = "none"]
    /\ token' = AccessToken(resp.serial)
    /\ resp' = noResp
    /\ tokenerPc' = "select"
    /\ completed' = completed + 1
    /\ lastOutcome' = "success"
    /\ installed' = AccessToken(resp.serial)
    /\ lastGet' = unset
    /\ written' = nothing
    /\ UNCHANGED <<mainPc, calls, oldToken, timerVars, netVars, hVars, maxSeen,
                   tokenAtTrigger, trigHist>>

\* Lines 412-421: <-stopIntrim returns once the channel is closed; install the
\* new token and spawn the timer goroutine, which sleeps, or for a duration
\* that is not positive goes on to its send at once. The interim goroutine of
\* this call has ended and nothing refers to it any more.
Install ==
    /\ tokenerPc = "waitClose"
    /\ interimPc[calls] = "done"
    /\ interimPc' = [interimPc EXCEPT ![calls] = "none"]
    /\ token' = AccessToken(resp.serial)
    /\ timerPc' = [timerPc EXCEPT ![calls] =
                       IF SleepSeconds(resp.expiresIn) > 0 THEN "sleeping" ELSE "sending"]
    /\ resp' = noResp
    /\ tokenerPc' = "select"
    /\ completed' = completed + 1
    /\ lastOutcome' = "success"
    /\ installed' = AccessToken(resp.serial)
    /\ lastGet' = unset
    /\ written' = nothing
    /\ UNCHANGED <<mainPc, calls, oldToken, netVars, hVars, maxSeen,
                   tokenAtTrigger, trigHist>>

(***************************************************************************)
(* statusHandler, lines 165-294, and rawRewriter, lines 296-325            *)
(***************************************************************************)

\* A /status/ request arrives (the server listens once main is past line 146)
\* and the handler blocks at its receive on tokenChan, line 167.
StatusStart(h) ==
    /\ mainPc = "serve"
    /\ hPc[h] = "idle"
    /\ hPc' = [hPc EXCEPT ![h] = "get"]
    /\ written' = nothing
    /\ UNCHANGED <<brokerVars, getHist, trigHist>>

\* A /raw/ request arrives and the director blocks at its receive, line 298.
RawStart(h) ==
    /\ mainPc = "serve"
    /\ hPc[h] = "idle"
    /\ hPc' = [hPc EXCEPT ![h] = "rawget"]
    /\ written' = nothing
    /\ UNCHANGED <<brokerVars, getHist, trigHist>>

\* The handler of a request for `bib` writes `code` and returns.
Return(h, bib, code) ==
    /\ hPc' = [hPc EXCEPT ![h] = "idle"]
    /\ written' = [bib |-> bib, code |-> code]

\* Faulty variant of StatusAfterGet: the test of lines 175-179 is missing, so
\* only "uninitialized" is treated as a sentinel.
StatusAfterGetNoEmptyCheck(h, v, bib) ==
    IF v = uninitialized THEN Return(h, bib, 500)
    ELSE IF bib = "" THEN Return(h, bib, 400)
    ELSE /\ hPc' = [hPc EXCEPT ![h] = "upstream"]
         /\ written' = nothing

\* Lines 169-212, statusHandler from its receive to its next blocking point,
\* for a request whose path carries `bib` (read at line 181 only): a sentinel
\* is answered 500 (169-179), then an empty bibID 400 (181-187), otherwise
\* the GET against the item endpoint is issued (189-212).
StatusAfterGet(h, v, bib) ==
    IF Sentinel(v) THEN Return(h, bib, 500)
    ELSE IF bib = "" THEN Return(h, bib, 400)
    ELSE /\ hPc' = [hPc EXCEPT ![h] = "upstream"]
         /\ written' = nothing

\* Faulty variant of RawAfterGet: a sentinel makes the director send a
\* refresh trigger, as statusHandler does at line 223.
RawAfterGetTriggers(h, v) ==
    /\ hPc' = [hPc EXCEPT ![h] = IF Sentinel(v) THEN "trigger" ELSE "idle"]
    /\ written' = nothing

\* Lines 300-325, rawRewriter after its receive: a sentinel is logged and the
\* request is forwarded all the same. The director writes no response itself.
RawAfterGet(h, v) ==
    /\ hPc' = [hPc EXCEPT ![h] = "idle"]
    /\ written' = nothing

\* A receive on tokenChan (line 167 or 298) completes with value v.
Deliver(h, v) ==
    /\ hPc[h] \in {"get", "rawget"}
    /\ IF hPc[h] = "get"
       THEN \E bib \in BibIds : StatusAfterGet(h, v, bib)
       ELSE RawAfterGet(h, v)
    /\ lastGet' = v
    /\ maxSeen' = Max(maxSeen, v.serial)

\* Lines 423-424: the loop's own send on tokenChan.
TokenerServe(h) ==
    /\ tokenerPc = "select"
    /\ Deliver(h, token)
    /\ UNCHANGED <<brokerVars, trigHist>>

\* Lines 351-352: the interim goroutine's send on tokenChan.
InterimServe(c, h) ==
    /\ interimPc[c] = "serving"
    /\ Deliver(h, oldToken[c])
    /\ UNCHANGED <<brokerVars, trigHist>>

\* The bibID of a request that reached the item endpoint is not empty.
SentBib == CHOOSE b \in BibIds : b # ""

\* Lines 213-218.
ItemTransportError(h) ==
    /\ hPc[h] = "upstream"
    /\ Return(h, SentBib, 500)
    /\ UNCHANGED <<brokerVars, getHist, trigHist>>

\* Lines 220-223: 500 is written, then the handler blocks sending the trigger.
ItemUnauthorized(h) ==
    /\ hPc[h] = "upstream"
    /\ hPc' = [hPc EXCEPT ![h] = "trigger"]
    /\ written' = [bib |-> SentBib, code |-> 500]
    /\ hTrigDuring' = [hTrigDuring EXCEPT ![h] = inflight > 0]
    /\ UNCHANGED <<brokerVars, getHist>>

\* Lines 239-246.
ItemDecodeError(h) ==
    /\ hPc[h] = "upstream"
    /\ Return(h, SentBib, 500)
    /\ UNCHANGED <<brokerVars, getHist, trigHist>>

\* Lines 248-292.
ItemOK(h) ==
    /\ hPc[h] = "upstream"
    /\ Return(h, SentBib, 200)
    /\ UNCHANGED <<brokerVars, getHist, trigHist>>

(***************************************************************************)
(* the interim goroutine, lines 345-358                                    *)
(***************************************************************************)

\* Line 347 reads the captured variable `token` with no synchronisation
\* against the writes of lines 384/392/402. Once tokener has written and
\* returned, the read may observe the value before the write or the value
\* written; before that it reads the value the refresh was triggered with.
Snapshot ==
    IF tokenerPc = "exited" THEN {tokenAtTrigger, token} ELSE {token}

InterimStart(c) ==
    /\ interimPc[c] = "spawned"
    /\ \E v \in Snapshot : oldToken' = [oldToken EXCEPT ![c] = v]
    /\ interimPc' = [interimPc EXCEPT ![c] = "serving"]
    /\ written' = nothing
    /\ UNCHANGED <<mainPc, tokVars, timerVars, netVars, hVars, getHist, refreshHist, trigHist>>

\* Lines 354-355: close(stopIntrim); break RunForever.
InterimClose(c) ==
    /\ interimPc[c] = "closing"
    /\ interimPc' = [interimPc EXCEPT ![c] = "done"]
    /\ oldToken' = [oldToken EXCEPT ![c] = unset]
    /\ written' = nothing
    /\ UNCHANGED <<mainPc, tokVars, timerVars, netVars, hVars, getHist, refreshHist, trigHist>>

(***************************************************************************)
(* the timer goroutine, lines 418-421                                      *)
(***************************************************************************)

\* Line 419 returns; line 420 blocks.
TimerFire(c) ==
    /\ timerPc[c] = "sleeping"
    /\ timerPc' = [timerPc EXCEPT ![c] = "sending"]
    /\ written' = nothing
    /\ UNCHANGED <<mainPc, tokVars, interimVars, netVars, hVars,
                   getHist, refreshHist, trigHist>>

Next ==
    \/ RefreshFromMain
    \/ \E c \in Calls : RefreshFromTimer(c)
    \/ \E h \in Handlers : RefreshFromHandler(h)
    \/ NetFail
    \/ \E e \in ExpiresInValues : NetSuccess(e)
    \/ StopInterim
    \/ Install
    \/ \E h \in Handlers : TokenerServe(h)
    \/ \E c \in Calls : InterimStart(c)
    \/ \E c \in Calls, h \in Handlers : InterimServe(c, h)
    \/ \E c \in Calls : InterimClose(c)
    \/ \E c \in Calls : TimerFire(c)
    \/ \E h \in Handlers : StatusStart(h)
    \/ \E h \in Handlers : RawStart(h)
    \/ \E h \in Handlers : ItemTransportError(h)
    \/ \E h \in Handlers : ItemUnauthorized(h)
    \/ \E h \in Handlers : ItemDecodeError(h)
    \/ \E h \in Handlers : ItemOK(h)

Spec == Init /\ [][Next]_vars

\* tokener's select receives from whichever sender is blocked on refreshTokenChan.
Accept ==
    \/ RefreshFromMain
    \/ \E c \in Calls : RefreshFromTimer(c)
    \/ \E h \in Handlers : RefreshFromHandler(h)

\* The Go scheduler runs every runnable goroutine, and a select picks among
\* its ready cases at random, so a case that stays ready is taken. Nothing is
\* assumed of the handlers (requests arrive or not) nor of the two endpoints
\* (client.Do has no timeout).
FairSpec ==
    /\ Spec
    /\ WF_vars(Accept)
    /\ WF_vars(StopInterim)
    /\ WF_vars(Install)
    /\ \A c \in Calls : WF_vars(InterimStart(c))
    /\ \A c \in Calls : WF_vars(InterimClose(c))
    /\ \A c \in Calls : WF_vars(TimerFire(c))

\* A receive on tokenChan by handler h completes, whoever sends.
Serve(h) ==
    \/ TokenerServe(h)
    \/ \E c \in Calls : InterimServe(c, h)

\* tokener between the decoding of a 200 answer and its return to the select
\* (lines 411-421), and the one interim goroutine alive at a time.
TokenerInstalls == StopInterim \/ Install
InterimRuns == \E c \in Calls : InterimStart(c) \/ InterimClose(c)

\* The scheduler runs tokener and the interim goroutine when they are
\* runnable, and a handler blocked at its receive on tokenChan is served when
\* a sender stays ready: a Go channel queues its blocked receivers and a
\* sender hands its value to the first of them. Nothing is assumed of the
\* timers, of the acceptance of triggers, of the arrival of requests nor of
\* the two endpoints.
GetFairSpec ==
    /\ Spec
    /\ WF_vars(TokenerInstalls)
    /\ WF_vars(InterimRuns)
    /\ \A h \in Handlers : WF_vars(Serve(h))

(***************************************************************************)
(* Properties                                                              *)
(***************************************************************************)

\* A step in which some handler's receive on tokenChan completes; the value
\* it received is lastGet'.
GetDone == \E h \in Handlers : hPc[h] \in {"get", "rawget"} /\ hPc'[h] \notin {"get", "rawget"}

\* The values goroutines are ready to send on tokenChan.
Offered ==
    (IF tokenerPc = "select" THEN {token} ELSE {})
        \cup {oldToken[c] : c \in {d \in Calls : interimPc[d] = "serving"}}

\* Some goroutine is blocked sending on refreshTokenChan.
TriggerPending ==
    \/ mainPc = "trigger"
    \/ \E c \in Calls : timerPc[c] = "sending"
    \/ \E h \in Handlers : hPc[h] = "trigger"

\* C1: at most one token-endpoint POST is outstanding in every reachable
\* state, whatever number of handlers and timers is blocked sending triggers.
C1_OneCallInFlight == inflight <= 1

\* A call is in flight while a handler and a timer are both blocked sending.
C1_Witness ==
    /\ inflight = 1
    /\ \E h \in Handlers : hPc[h] = "trigger"
    /\ \E c \in Calls : timerPc[c] = "sending"

C3_EmptyAfterFailure ==
    lastOutcome = "failure" => (token = empty /\ \A v \in Offered : v = empty)

\* C4: after a failed refresh a pending trigger is accepted and a new
\* token-endpoint call starts.
C4_RefreshAfterFailure ==
    (lastOutcome = "failure" /\ TriggerPending) ~> (inflight > 0)

\* C5: a trigger issued while a token-endpoint call is in flight starts no
\* further call: when the trigger of a handler that sent it during a call is
\* received, the number of calls started does not grow.
C5_TriggerIdempotent ==
    [][\A h \in Handlers :
          (hPc[h] = "trigger" /\ hTrigDuring[h] /\ hPc'[h] = "idle") => calls' = calls]_vars

\* C6: a handler whose item call is answered 401 writes 500, and the broker
\* then begins a new refresh: from any state in which the handler has sent
\* its trigger and no token-endpoint call is in flight, a call is started.
C6_RefreshAfter401 ==
    /\ [][\A h \in Handlers :
            (hPc[h] = "upstream" /\ hPc'[h] = "trigger") => written'.code = 500]_vars
    /\ \A h \in Handlers : (hPc[h] = "trigger" /\ inflight = 0) ~> (inflight > 0)

\* C7: no interaction of a handler with the broker waits for an outstanding
\* token-endpoint call: no handler is blocked sending its trigger while a
\* call is in flight.
C7_HandlerNeverWaitsForCall ==
    \A h \in Handlers : hPc[h] = "trigger" => inflight = 0

\* C8: until the first refresh has ended every get() returns
\* "uninitialized"; while the refresh that ended last was a success, every
\* get() returns the token it installed; and two get() calls with no refresh
\* ending between them return the same value.
C8_GetReturnsCurrent ==
    [][GetDone =>
          /\ (completed = 0 => lastGet' = uninitialized)
          /\ (lastOutcome = "success" => lastGet' = installed)
          /\ (lastGet # unset => lastGet' = lastGet)]_vars

\* After the first successful refresh, and before any other ends, a get()
\* has returned its token.
C8_Witness ==
    /\ lastOutcome = "success"
    /\ completed = 1
    /\ lastGet = AccessToken(1)

\* C9: after every successful refresh a further refresh begins: whenever the
\* loop is back at its select after a refresh that ended in success (no call
\* is in flight then), a token-endpoint call is eventually started, with no
\* trigger needed from any handler.
C9_RefreshLoopContinues ==
    (tokenerPc = "select" /\ lastOutcome = "success") ~> (inflight > 0)

\* The second refresh was started by the first one's timer: no handler had
\* sent a trigger (none has ever been answered by the item endpoint).
C9_Witness ==
    /\ calls = 2
    /\ timerPc[1] = "done"
    /\ \A h \in Handlers : hPc[h] = "idle"
    /\ maxSeen = 0

\* C10: readers see a monotonic sequence of credentials: a get() never returns
\* "uninitialized" nor the token of an earlier refresh once some get() has
\* returned the token of a later one.
C10_MonotonicReads ==
    [][GetDone =>
          /\ (lastGet' = uninitialized => maxSeen = 0)
          /\ (lastGet'.str = "access_token" => lastGet'.serial >= maxSeen)]_vars

\* A get() has returned the second token after one had returned the first,
\* while the interim goroutine of the third call offers the second.
C10_Witness ==
    /\ maxSeen = 2
    /\ lastGet = AccessToken(2)
    /\ calls = 3
    /\ interimPc[3] = "serving"

\* C11: a status request with an empty record identifier is answered 400 and
\* makes no call to the item endpoint, whatever the broker's state: when a
\* handler's receive completes and a response is written for an empty bibID,
\* the response is 400 and the handler is not at the item call.
C11_EmptyIdIs400 ==
    [][\A h \in Handlers :
          (hPc[h] = "get" /\ hPc'[h] # "get" /\ written'.code # 0 /\ written'.bib = "")
              => (written'.code = 400 /\ hPc'[h] = "idle")]_vars

\* C12: a status request whose get() returns a sentinel ("uninitialized" or
\* the empty string) is answered 500, makes no call to the item endpoint and
\* issues no refresh trigger: the handler returns at once, and no
\* token-endpoint call is started by that step.
C12_SentinelIs500 ==
    [][\A h \in Handlers :
          (hPc[h] = "get" /\ hPc'[h] # "get" /\ Sentinel(lastGet'))
              => /\ written'.code = 500
                 /\ hPc'[h] = "idle"
                 /\ calls' = calls]_vars

\* A request for a record got the empty string and was answered 500. No
\* get() has ever returned a token, so the 500 is not the item endpoint's.
C12_Witness ==
    /\ lastGet = empty
    /\ written = [bib |-> SentBib, code |-> 500]
    /\ maxSeen = 0

\* The timer goroutines that have been spawned and have not yet delivered
\* their trigger: asleep at line 419 or blocked at line 420.
PendingTimers == {c \in Calls : timerPc[c] \in {"sleeping", "sending"}}

\* C13: at most one scheduled automatic-refresh timer is pending at any time;
\* a refresh that succeeds while the timer of an earlier success is pending
\* cancels or replaces it.
C13_OneTimerPending == Cardinality(PendingTimers) <= 1

\* C14: handling a raw pass-through request never triggers a refresh and
\* never changes broker state: the step in which the director's receive
\* completes, with a sentinel or with a token, leaves every variable of
\* tokener, of its goroutines and of the token endpoint unchanged, writes no
\* response, and leaves the director with nothing more to do (it sends no
\* trigger then or later).
C14_RawOnlyReads ==
    [][\A h \in Handlers :
          (hPc[h] = "rawget" /\ hPc'[h] # "rawget")
              => /\ hPc'[h] = "idle"
                 /\ written' = nothing
                 /\ UNCHANGED brokerVars]_vars

\* A raw request has just been forwarded with "uninitialized": while the
\* first token-endpoint call is outstanding only a delivery can leave every
\* handler idle after a get(), and the delivery to a status request writes 500.
C14_Witness ==
    /\ calls = 1
    /\ inflight = 1
    /\ lastGet = uninitialized
    /\ written = nothing
    /\ \A h \in Handlers : hPc[h] = "idle"

\* C15: every get() eventually returns, in every reachable state, also
\* after a refresh has failed: a handler blocked at its receive on tokenChan
\* does not stay there for ever (it is again and again not at a receive),
\* with nothing assumed of the two endpoints.
C15_GetReturns ==
    \A h \in Handlers : []<>(hPc[h] \notin {"get", "rawget"})

\* A get() has returned after the refresh failed and tokener ended.
C15_Witness ==
    /\ lastOutcome = "failure"
    /\ tokenerPc = "exited"
    /\ lastGet # unset

\* C16: the value get() returns after a refresh ends does not depend on
\* goroutine scheduling: the snapshot an interim goroutine offers is the token
\* that was current when its refresh was triggered, also when the call fails
\* and tokener writes "" before the interim goroutine has run.
C16_SnapshotIsTokenAtTrigger ==
    \A c \in Calls : interimPc[c] = "serving" => oldToken[c] = tokenAtTrigger

\* The goroutines ready to send on tokenChan: the loop of tokener (0) at its
\* select, and the interim goroutines (by call) at theirs.
Offerers ==
    (IF tokenerPc = "select" THEN {0} ELSE {}) \cup {c \in Calls : interimPc[c] = "serving"}

\* The interim goroutines that have been spawned and have not ended.
LiveInterims == {c \in Calls : interimPc[c] \in {"spawned", "serving", "closing"}}

\* C17: at most one goroutine offers values on tokenChan at any time: the
\* loop of tokener offers only while no refresh is in progress, at most one
\* interim goroutine exists, and an interim goroutine that is still offering
\* offers while the token of the successful answer is not yet installed (the
\* variable holds what it held at the trigger, or "" after a failure).
C17_OneOfferer ==
    /\ Cardinality(Offerers) <= 1
    /\ tokenerPc = "select" => (inflight = 0 /\ LiveInterims = {})
    /\ Cardinality(LiveInterims) <= 1
    /\ \A c \in Calls : interimPc[c] = "serving" => token \in {tokenAtTrigger, empty}

\* The second success has been installed after its handshake: the loop alone
\* offers the new token, the interim goroutine of that call has ended.
C17_Witness ==
    /\ successes = 2
    /\ token = AccessToken(2)
    /\ Offerers = {0}
    /\ interimPc[calls] = "none"

\* C18: for a reported expires_in of E seconds the automatic trigger is
\* issued E - 20 seconds after the successful refresh, strictly after the
\* refresh and strictly before the expiry, for every E the endpoint may
\* report: when tokener installs a token and spawns the timer, the delay is
\* positive and less than E, and the timer goroutine sleeps before it sends.
C18_TriggerBeforeExpiryAfterRefresh ==
    [][(tokenerPc = "waitClose" /\ tokenerPc' = "select")
          => /\ 0 < SleepSeconds(resp.expiresIn)
             /\ SleepSeconds(resp.expiresIn) < resp.expiresIn
             /\ timerPc'[calls] = "sleeping"]_vars

====
